---- MODULE Spec2Model ----
(***************************************************************************)
(* bevy_expected_components: the derive macro (macros/src/lib.rs), the     *)
(* inventory of registrations, the plugin that binds the on_add hooks and  *)
(* the validation hook (src/lib.rs), run against the host world's          *)
(* component table, entities and on_add hook slots.                        *)
(***************************************************************************)
EXTENDS Integers, Sequences, FiniteSets, TLC

VARIABLES
    components,   \* the world's component table: the TypeIds that have a component slot
    entities,     \* entities[e]: the set of ComponentIds entity e holds
    spawned,      \* number of entities spawned so far (entity ids 1..spawned)
    archetyped,   \* ComponentIds that occur in some archetype of the world
    on_add,       \* on_add[T]: the on_add hook slot of component T (<<>> = unset)
    builds,       \* how many times ExpectedComponentsPlugin::build was called
    panic,        \* the panic that ended the program, kind "none" while it runs
    last,         \* the operation performed last: which, on which entity, with which
                  \* bundle, and the components whose on_add hook it had to run
    input,        \* the item handed to the derive macro
    output        \* what the derive macro expanded it to

vars == <<components, entities, spawned, archetyped, on_add, builds, panic, last, input, output>>

world == <<components, entities, spawned, archetyped, on_add, builds, panic, last>>

---------------------------------------------------------------------------
(* Bounds *)

MaxEntities == 1
MaxBundle == 4
MaxAttrs == 2
MaxBuilds == 2

---------------------------------------------------------------------------
(* Types of the program and the standard library's identity and name of each *)

Types == {"PhysicsBody", "SingleExpectation", "Position", "Velocity"}

\* std::any::TypeId::of::<P>(): an opaque identity, one per type
TypeIdOf(t) ==
    CASE t = "Position" -> 7001
      [] t = "Velocity" -> 7002
      [] t = "PhysicsBody" -> 7003
      [] t = "SingleExpectation" -> 7004

\* std::any::type_name::<P>(): the full path of the type
type_name(t) ==
    CASE t = "Position" -> "bevy_expected_components::tests::Position"
      [] t = "Velocity" -> "bevy_expected_components::tests::Velocity"
      [] t = "PhysicsBody" -> "bevy_expected_components::tests::PhysicsBody"
      [] t = "SingleExpectation" -> "bevy_expected_components::tests::SingleExpectation"

---------------------------------------------------------------------------
(* The derive macro *)

\* A token of an attribute's argument list: a path (short or qualified) or
\* something that is no path (a literal).
Path(segs) == [kind |-> "path", segs |-> segs]
Lit(text) == [kind |-> "lit", segs |-> <<text>>]

\* the type a path names: its last segment, whatever qualifies it
ResolvePath(p) == p.segs[Len(p.segs)]

\* attr.parse_args_with(Punctuated::<Path, Token![,]>::parse_terminated)
parse_args_with(attr) ==
    IF \A i \in 1..Len(attr.tokens) : attr.tokens[i].kind = "path"
    THEN [ok |-> TRUE, paths |-> attr.tokens]
    ELSE [ok |-> FALSE, paths |-> <<>>]

\* Result::unwrap_or_default
unwrap_or_default(r) == IF r.ok THEN r.paths ELSE <<>>

is_ident_any(attr) == attr.ident \in {"expect", "expects"}

\* the filter of the attribute scan: attr.path().is_ident("expect")
is_ident(attr) == attr.ident = "expect"

RECURSIVE expected_paths(_)
\* input.attrs.iter().filter(..).flat_map(..).collect()
expected_paths(attrs) ==
    IF attrs = <<>> THEN <<>>
    ELSE (IF is_ident(Head(attrs))
          THEN unwrap_or_default(parse_args_with(Head(attrs)))
          ELSE <<>>) \o expected_paths(Tail(attrs))

\* derive_expect_components: a compile error, or the ExpectComponents impl
\* (ids, names) and one inventory::submit! of ExpectRegistration::of::<name>()
derive_expect_components(item) ==
    LET expected == expected_paths(item.attrs) IN
    IF expected = <<>>
    THEN [error |-> TRUE, ids |-> <<>>, names |-> <<>>, submitted |-> <<>>]
    ELSE [error |-> FALSE,
          ids |-> [i \in 1..Len(expected) |-> TypeIdOf(ResolvePath(expected[i]))],
          names |-> [i \in 1..Len(expected) |-> type_name(ResolvePath(expected[i]))],
          submitted |-> <<item.ident>>]

---------------------------------------------------------------------------
(* The program: the declarations of src/lib.rs's test module, expanded *)

ExpectAttr(tokens) == [ident |-> "expect", tokens |-> tokens]

\* #[derive(Component, ExpectComponents)] #[expect(Position, Velocity)] struct PhysicsBody;
\* #[derive(Component, ExpectComponents)] #[expect(Position)] struct SingleExpectation;
DeclaredItems ==
    << [ident |-> "PhysicsBody",
        attrs |-> <<ExpectAttr(<<Path(<<"Position">>), Path(<<"Velocity">>)>>)>>],
       [ident |-> "SingleExpectation",
        attrs |-> <<ExpectAttr(<<Path(<<"Position">>)>>)>>] >>

\* the derive's expansion of each declared item
Expansions ==
    [i \in 1..Len(DeclaredItems) |-> derive_expect_components(DeclaredItems[i])]

\* the expansion of the item that declares type T
Expansion(T) ==
    Expansions[CHOOSE i \in 1..Len(DeclaredItems) : DeclaredItems[i].ident = T]

\* <T as ExpectComponents>::expected_components()
expected_components(T) == Expansion(T).ids

\* <T as ExpectComponents>::expected_component_names()
expected_component_names(T) == Expansion(T).names

RECURSIVE collect(_)
\* inventory::collect!(ExpectRegistration): every submitted registration, each
\* standing for ExpectRegistration::of::<T>()
collect(items) ==
    IF items = <<>> THEN <<>>
    ELSE derive_expect_components(Head(items)).submitted \o collect(Tail(items))

Inventory == collect(DeclaredItems)

\* inventory::iter yields the registrations in an unspecified order
IterOrders ==
    LET n == Len(Inventory)
        perms == {f \in [1..n -> 1..n] : \A i, j \in 1..n : f[i] = f[j] => i = j}
    IN {[i \in 1..n |-> Inventory[f[i]]] : f \in perms}

---------------------------------------------------------------------------
(* The host world *)

NoPanic == [kind |-> "none", declaring |-> "", missing |-> "", entity |-> 0, examined |-> 0]

\* the ComponentId of the slot of a type: an opaque handle
ComponentId(type_id) == [slot |-> type_id]

\* Components::get_id(type_id): Some(ComponentId) when the type has a slot,
\* None otherwise; an Option is the set of its values
get_id(comps, type_id) ==
    IF type_id \in comps THEN {ComponentId(type_id)} ELSE {}

\* registering a component type: a new slot unless the type has one
register_component(comps, type_id) == comps \cup {type_id}

\* a bundle registers the component types it holds
register_bundle(comps, bundle) ==
    comps \cup {TypeIdOf(bundle[i]) : i \in 1..Len(bundle)}

\* the ComponentIds of a bundle's components, all registered in comps
bundle_ids(comps, bundle) ==
    UNION {get_id(comps, TypeIdOf(bundle[j])) : j \in 1..Len(bundle)}

---------------------------------------------------------------------------
(* The validation hook *)

\* component_id.is_some_and(|id| world.entity(entity).contains_id(id))
has_component(component_id, held) == \E id \in component_id : id \in held

zip_len_short(expected, names) == Len(expected) - 1

\* expected.iter().zip(names.iter()) ends with the shorter of the two
zip_len(expected, names) ==
    IF Len(expected) <= Len(names) THEN Len(expected) ELSE Len(names)

RECURSIVE scan_back(_, _, _, _, _)
scan_back(expected, n, i, comps, held) ==
    IF i < 1 THEN [missing |-> 0, examined |-> n]
    ELSE IF ~has_component(get_id(comps, expected[i]), held)
         THEN [missing |-> i, examined |-> n - i + 1]
         ELSE scan_back(expected, n, i - 1, comps, held)

RECURSIVE scan(_, _, _, _, _)
\* the for loop of validate_expected from index i on: the index of the
\* entry it panics at (0: none) and how many entries it examined
scan(expected, n, i, comps, held) ==
    IF i > n THEN [missing |-> 0, examined |-> n]
    ELSE IF ~has_component(get_id(comps, expected[i]), held)
         THEN [missing |-> i, examined |-> i]
         ELSE scan(expected, n, i + 1, comps, held)

first_missing_from_end(expected, n, comps, held) == scan_back(expected, n, n, comps, held)

\* the loop from its first entry
first_missing(expected, n, comps, held) == scan(expected, n, 1, comps, held)

\* validate_expected::<T>(world, entity, _): the panic it raises, or NoPanic
validate_expected(T, comps, held, entity) ==
    LET expected == expected_components(T)
        names == expected_component_names(T)
        r == first_missing(expected, zip_len(expected, names), comps, held)
    IN IF r.missing = 0 THEN NoPanic
       ELSE [kind |-> "expects", declaring |-> type_name(T), missing |-> names[r.missing],
             entity |-> entity, examined |-> r.examined]

---------------------------------------------------------------------------
(* Binding the hooks *)

BuildPanic(kind, T) ==
    [kind |-> kind, declaring |-> type_name(T), missing |-> "", entity |-> 0, examined |-> 0]

register_hooks_rebinding(T, w, arch) ==
    [components |-> register_component(w.components, TypeIdOf(T)),
     on_add |-> [w.on_add EXCEPT ![T] = Append(@, T)],
     panic |-> NoPanic]

\* the closure of ExpectRegistration::of::<T>():
\*   world.register_component_hooks::<T>().on_add(validate_expected::<T>)
\* register_component_hooks registers T and refuses a component that occurs
\* in an archetype; on_add refuses a slot that is already set. The slot
\* holds the T of the validate_expected::<T> bound to it.
register_hooks(T, w, arch) ==
    LET comps1 == register_component(w.components, TypeIdOf(T))
    IN IF get_id(comps1, TypeIdOf(T)) \cap arch # {}
       THEN [components |-> comps1, on_add |-> w.on_add,
             panic |-> BuildPanic("hooks_locked", T)]
       ELSE IF w.on_add[T] # <<>>
       THEN [components |-> comps1, on_add |-> w.on_add,
             panic |-> BuildPanic("hook_already_set", T)]
       ELSE [components |-> comps1,
             on_add |-> [w.on_add EXCEPT ![T] = <<T>>],
             panic |-> NoPanic]

RECURSIVE build_from(_, _, _, _)
\* the for loop of ExpectedComponentsPlugin::build over the registrations from
\* position i on; a panic ends it
build_from(order, i, w, arch) ==
    IF i > Len(order) \/ w.panic.kind # "none" THEN w
    ELSE build_from(order, i + 1, register_hooks(order[i], w, arch), arch)

build_skipping_last(order, w, arch) ==
    build_from(SubSeq(order, 1, Len(order) - 1), 1, w, arch)

\* ExpectedComponentsPlugin::build
build(order, w, arch) == build_from(order, 1, w, arch)

---------------------------------------------------------------------------
(* Insertion of a bundle and the on_add hooks it triggers *)

hook_of_every_declared(hooks, T) ==
    IF \E i \in 1..Len(Inventory) : Inventory[i] = T THEN <<T>> ELSE hooks[T]

\* the on_add slot of component T
hook_of(hooks, T) == hooks[T]

held_at_hook_before_write(before, bundle, i, comps) == before

held_at_hook_per_component(before, bundle, i, comps) ==
    before \cup bundle_ids(comps, SubSeq(bundle, 1, i))

\* what the entity holds when the on_add hook of the bundle's i-th component
\* runs: the host writes the whole bundle, then triggers the hooks
held_at_hook(before, bundle, i, comps) == before \cup bundle_ids(comps, bundle)

\* on_add is triggered for the components the entity did not hold before
newly_added(before, comps, T) == get_id(comps, TypeIdOf(T)) \cap before = {}

RECURSIVE trigger_on_add(_, _, _, _, _, _)
\* the on_add hooks of the bundle's components from position i on, in bundle
\* order; the first panic ends the operation
trigger_on_add(bundle, i, before, comps, hooks, entity) ==
    IF i > Len(bundle) THEN NoPanic
    ELSE LET T == bundle[i]
             r == IF newly_added(before, comps, T) /\ hook_of(hooks, T) # <<>>
                  THEN validate_expected(hook_of(hooks, T)[1], comps,
                                         held_at_hook(before, bundle, i, comps), entity)
                  ELSE NoPanic
         IN IF r.kind # "none" THEN r
            ELSE trigger_on_add(bundle, i + 1, before, comps, hooks, entity)

\* the components of the bundle whose on_add hook the operation has to run:
\* newly added to the entity, with a hook in their slot
hooks_due(bundle, before, comps, hooks) ==
    SelectSeq(bundle, LAMBDA t : newly_added(before, comps, t) /\ hook_of(hooks, t) # <<>>)

\* bundles: tuples of distinct component types
Bundles ==
    {b : b \in {f \in UNION {[1..k -> Types] : k \in 1..MaxBundle} :
                   \A i, j \in 1..Len(f) : f[i] = f[j] => i = j}}

\* World::spawn(bundle) and EntityWorldMut::insert(bundle) on entity e
InsertBundle(op, e, bundle) ==
    LET comps1 == register_bundle(components, bundle)
        before == entities[e]
        after == before \cup bundle_ids(comps1, bundle)
    IN /\ components' = comps1
       /\ entities' = [entities EXCEPT ![e] = after]
       /\ archetyped' = archetyped \cup after
       /\ panic' = trigger_on_add(bundle, 1, before, comps1, on_add, e)
       /\ last' = [op |-> op, entity |-> e, bundle |-> bundle,
                   hooked |-> hooks_due(bundle, before, comps1, on_add)]
       /\ UNCHANGED <<on_add, builds, input, output>>

---------------------------------------------------------------------------
(* The operations of the program *)

EmptyItem == [ident |-> "", attrs |-> <<>>]

Init ==
    /\ components = {}
    /\ entities = [e \in 1..MaxEntities |-> {}]
    /\ spawned = 0
    /\ archetyped = {}
    /\ on_add = [t \in Types |-> <<>>]
    /\ builds = 0
    /\ panic = NoPanic
    /\ last = [op |-> "new", entity |-> 0, bundle |-> <<>>, hooked |-> <<>>]
    /\ input = EmptyItem
    /\ output = <<>>

\* app.add_plugins(ExpectedComponentsPlugin): the plugin's build runs
Build ==
    /\ panic.kind = "none"
    /\ builds < MaxBuilds
    /\ \E order \in IterOrders :
         LET w == build(order,
                        [components |-> components, on_add |-> on_add, panic |-> NoPanic],
                        archetyped)
         IN /\ components' = w.components
            /\ on_add' = w.on_add
            /\ panic' = w.panic
            /\ last' = [op |-> "build", entity |-> 0, bundle |-> order, hooked |-> <<>>]
    /\ builds' = builds + 1
    /\ UNCHANGED <<entities, spawned, archetyped, input, output>>

\* app.world_mut().spawn(bundle)
Spawn ==
    /\ panic.kind = "none"
    /\ spawned < MaxEntities
    /\ \E bundle \in Bundles : InsertBundle("spawn", spawned + 1, bundle)
    /\ spawned' = spawned + 1

\* world.entity_mut(e).insert(bundle)
Insert ==
    /\ panic.kind = "none"
    /\ \E e \in 1..spawned : \E bundle \in Bundles : InsertBundle("insert", e, bundle)
    /\ UNCHANGED spawned

\* world.entity_mut(e).remove::<T>()
Remove ==
    /\ panic.kind = "none"
    /\ \E e \in 1..spawned : \E t \in Types :
         /\ has_component(get_id(components, TypeIdOf(t)), entities[e])
         /\ entities' = [entities EXCEPT ![e] = @ \ get_id(components, TypeIdOf(t))]
         /\ last' = [op |-> "remove", entity |-> e, bundle |-> <<t>>, hooked |-> <<>>]
    /\ UNCHANGED <<components, spawned, archetyped, on_add, builds, panic, input, output>>

Next == Build \/ Spawn \/ Insert \/ Remove

Spec == Init /\ [][Next]_vars

---------------------------------------------------------------------------
(* The derive macro applied to an arbitrary item *)

Position == Path(<<"Position">>)
Velocity == Path(<<"Velocity">>)
QualifiedPosition == Path(<<"crate", "tests", "Position">>)

\* argument lists of an attribute: empty, short and qualified paths, and
\* lists that hold a token that is no path
ArgLists ==
    { <<>>, <<Position>>, <<Velocity>>, <<Position, Velocity>>, <<Velocity, Position>>,
      <<QualifiedPosition>>, <<Position, Lit("42")>>, <<Lit("42")>> }

Attrs == [ident : {"expect", "expects", "doc"}, tokens : ArgLists]

Items ==
    [ident : {"MultiAttribute"},
     attrs : UNION {[1..k -> Attrs] : k \in 0..MaxAttrs}]

InitDerive ==
    /\ components = {}
    /\ entities = [e \in 1..MaxEntities |-> {}]
    /\ spawned = 0
    /\ archetyped = {}
    /\ on_add = [t \in Types |-> <<>>]
    /\ builds = 0
    /\ panic = NoPanic
    /\ last = [op |-> "new", entity |-> 0, bundle |-> <<>>, hooked |-> <<>>]
    /\ input \in Items
    /\ output = <<>>

\* #[derive(ExpectComponents)] on the item: the macro expands it once
Expand ==
    /\ output = <<>>
    /\ output' = <<derive_expect_components(input)>>
    /\ UNCHANGED <<world, input>>

NextDerive == Expand

SpecDerive == InitDerive /\ [][NextDerive]_vars

---------------------------------------------------------------------------
(* Vocabulary of the properties *)

\* the types that derive ExpectComponents, and what each declares it expects
DeclaringTypes == {"PhysicsBody", "SingleExpectation"}

Contract(T) ==
    CASE T = "PhysicsBody" -> <<"Position", "Velocity">>
      [] T = "SingleExpectation" -> <<"Position">>

Range(seq) == {seq[i] : i \in 1..Len(seq)}

ExpectedSet(T) == Range(Contract(T))

\* entity e holds a component of type t
Holds(e, t) == e \in 1..MaxEntities /\ ComponentId(TypeIdOf(t)) \in entities[e]

\* the last operation put a bundle on an entity while the hooks were bound
InsertedActivated == last.op \in {"spawn", "insert"} /\ builds >= 1

\* the program ended in the hook of T
FailedAt(T) == panic.kind = "expects" /\ panic.declaring = type_name(T)

\* C1: with the plugin built, an insertion that runs the hook of declaring type T on
\* an entity that holds every type T expects when the hook runs does not end
\* in T's hook panicking, whichever way the bundle and the earlier operations
\* ordered T and the expected types.
C1_PresentNeverFails ==
    \A T \in DeclaringTypes :
        (InsertedActivated /\ T \in Range(last.hooked)
         /\ \A s \in ExpectedSet(T) : Holds(last.entity, s))
        => ~FailedAt(T)

\* PhysicsBody inserted alone onto an entity that earlier operations gave
\* Position and Velocity, with the hook bound: no panic
C1_Witness ==
    /\ last.op = "insert" /\ builds = 1 /\ last.bundle = <<"PhysicsBody">>
    /\ last.hooked = <<"PhysicsBody">>
    /\ Holds(last.entity, "Position") /\ Holds(last.entity, "Velocity")
    /\ panic.kind = "none"

\* C2: with the plugin built, a spawn whose bundle is T and a strict subset
\* of the types T expects panics, and the message names T and an expected
\* type the entity lacks.
C2_StrictSubsetFails ==
    \A T \in DeclaringTypes :
        (last.op = "spawn" /\ builds >= 1 /\ T \in Range(last.bundle)
         /\ Range(last.bundle) \ {T} \subseteq ExpectedSet(T)
         /\ Range(last.bundle) \ {T} # ExpectedSet(T))
        => /\ FailedAt(T)
           /\ panic.entity = last.entity
           /\ \E s \in ExpectedSet(T) :
                 /\ ~Holds(last.entity, s)
                 /\ panic.missing = type_name(s)

\* spawn((PhysicsBody, Velocity)) with the plugin built: the panic names
\* PhysicsBody and Position
C2_Witness ==
    /\ last.op = "spawn" /\ builds = 1 /\ last.bundle = <<"PhysicsBody", "Velocity">>
    /\ FailedAt("PhysicsBody")
    /\ panic.missing = type_name("Position")

\* C3: while the plugin's build has never run, nothing panics: no hook is
\* bound, whatever was spawned and inserted.
C3_NoValidationWithoutPlugin ==
    builds = 0 => (panic.kind = "none" /\ \A t \in Types : on_add[t] = <<>>)

\* without the plugin, PhysicsBody was put on an entity that holds neither
\* Position nor Velocity, after earlier operations, and the program runs on
C3_Witness ==
    /\ builds = 0 /\ last.op = "insert" /\ "PhysicsBody" \in Range(last.bundle)
    /\ Holds(last.entity, "PhysicsBody")
    /\ ~Holds(last.entity, "Position") /\ ~Holds(last.entity, "Velocity")
    /\ panic.kind = "none"

\* C4 as stated: with the plugin built, a combined spawn that lists T first
\* and the types T expects after it panics.
C4_Original ==
    \A T \in DeclaringTypes :
        (last.op = "spawn" /\ builds >= 1 /\ last.bundle[1] = T
         /\ ExpectedSet(T) \subseteq Range(last.bundle))
        => panic.kind = "expects"

\* C4 amended: with the plugin built, an operation that newly adds T to an entity fails
\* at T's hook when a type T expects is neither on the entity already nor in
\* the operation's bundle (and no hook earlier in the bundle failed first);
\* a bundle that lists T first and holds every type T expects does not fail
\* at T's hook, because the hooks run after the whole bundle is written.
C4_Amended ==
    \A T \in DeclaringTypes :
        /\ (InsertedActivated /\ T \in Range(last.hooked) /\ last.bundle[1] = T
            /\ ExpectedSet(T) \subseteq Range(last.bundle))
           => ~FailedAt(T)
        /\ (InsertedActivated /\ T \in Range(last.hooked)
            /\ \E s \in ExpectedSet(T) : ~Holds(last.entity, s))
           => panic.kind = "expects"
        /\ (InsertedActivated /\ last.hooked = <<T>>
            /\ \E s \in ExpectedSet(T) : ~Holds(last.entity, s))
           => FailedAt(T)

\* spawn((PhysicsBody, Position, Velocity)) with the plugin built: no panic
C4_Witness ==
    /\ last.op = "spawn" /\ builds = 1
    /\ last.bundle = <<"PhysicsBody", "Position", "Velocity">>
    /\ panic.kind = "none"

\* C7: every declaring type has exactly one registration in the inventory,
\* and once a build has completed, the types whose on_add slot holds a
\* validation hook are exactly the declaring types, each slot holding the
\* hook of its own type, in whatever order the build iterated.
C7_RegistryComplete ==
    /\ \A T \in DeclaringTypes :
          Cardinality({i \in 1..Len(Inventory) : Inventory[i] = T}) = 1
    /\ Range(Inventory) = DeclaringTypes
    /\ (builds >= 1 /\ panic.kind = "none")
       => /\ {t \in Types : on_add[t] # <<>>} = DeclaringTypes
          /\ \A T \in DeclaringTypes : on_add[T] = <<T>>

\* a build that iterated SingleExpectation before PhysicsBody has completed
C7_Witness ==
    /\ builds = 1 /\ panic.kind = "none" /\ last.op = "build"
    /\ last.bundle = <<"SingleExpectation", "PhysicsBody">>
    /\ on_add["PhysicsBody"] # <<>>

\* C8 as stated: with the plugin built, every insertion of a bundle that
\* holds declaring type T (a spawn, an insertion, a re-insertion) that does
\* not panic leaves the entity holding every type T expects.
C8_Claim ==
    \A T \in DeclaringTypes :
        (InsertedActivated /\ T \in Range(last.bundle) /\ panic.kind = "none")
        => \A s \in ExpectedSet(T) : Holds(last.entity, s)

\* the types of T's contract, in declared order, that entity e lacks
MissingIndices(T, e) == {i \in 1..Len(Contract(T)) : ~Holds(e, Contract(T)[i])}

Least(S) == CHOOSE i \in S : \A j \in S : i <= j

\* C9: a panic of the hook of T names the first type, in declared order, that
\* the entity lacks (its slot unregistered, or registered and not on the
\* entity), by the name at that index, with T's name and the entity, and
\* the hook examined no entry after it.
C9_FirstMissing ==
    \A T \in DeclaringTypes :
        FailedAt(T)
        => /\ panic.entity = last.entity
           /\ MissingIndices(T, panic.entity) # {}
           /\ LET k == Least(MissingIndices(T, panic.entity))
              IN /\ panic.missing = type_name(Contract(T)[k])
                 /\ panic.examined = k

\* PhysicsBody's hook ran on an entity that lacks Position (no slot in the
\* world) and Velocity: it stopped at Position
C9_Witness ==
    /\ FailedAt("PhysicsBody")
    /\ TypeIdOf("Position") \notin components
    /\ ~Holds(panic.entity, "Velocity")
    /\ panic.missing = type_name("Position")
    /\ panic.examined = 1

\* C10 as stated: a second build completes and leaves every declaring type
\* with two bound hooks.
C10_Original ==
    builds = 2
    => /\ panic.kind = "none"
       /\ \A T \in DeclaringTypes : Len(on_add[T]) = 2

\* C10 amended: a second build on the same world does not complete: it panics
\* at the first registration it visits (the slot is set, or the component is
\* in an archetype), and no declaring type ever has more than one hook bound.
C10_Amended ==
    /\ \A T \in Types : Len(on_add[T]) <= 1
    /\ builds = 2
       => /\ panic.kind \in {"hook_already_set", "hooks_locked"}
          /\ panic.declaring = type_name(last.bundle[1])
          /\ \A T \in DeclaringTypes : on_add[T] = <<T>>

\* a second build has run and panicked at the slot that was already set
C10_Witness ==
    builds = 2 /\ last.op = "build" /\ panic.kind = "hook_already_set"

---------------------------------------------------------------------------
(* Properties of the derive macro *)

Expanded == output # <<>>

WellFormed(attr) == \A i \in 1..Len(attr.tokens) : attr.tokens[i].kind = "path"

RECURSIVE Concat(_)
Concat(lists) == IF lists = <<>> THEN <<>> ELSE Head(lists) \o Concat(Tail(lists))

\* the types the annotations named `ident` list, in declaration order
Listed(item, ident) ==
    LET tokens == Concat([i \in 1..Len(item.attrs) |->
                            IF item.attrs[i].ident = ident
                            THEN item.attrs[i].tokens ELSE <<>>])
    IN [i \in 1..Len(tokens) |-> tokens[i].segs[Len(tokens[i].segs)]]

\* C5 as stated: an item that carries several well-formed #[expects(...)]
\* annotations, as tests/integration.rs writes them, expands to the contract
\* that concatenates their lists in declaration order.
C5_Claim ==
    (/\ Expanded
     /\ Len(input.attrs) >= 2
     /\ \A i \in 1..Len(input.attrs) :
           /\ input.attrs[i].ident = "expects"
           /\ WellFormed(input.attrs[i])
           /\ input.attrs[i].tokens # <<>>)
    => /\ ~output[1].error
       /\ output[1].names = [i \in 1..Len(Listed(input, "expects")) |->
                               type_name(Listed(input, "expects")[i])]

\* some well-formed #[expect(...)] annotation of the item lists a type
Supplies(item) ==
    \E i \in 1..Len(item.attrs) :
        /\ item.attrs[i].ident = "expect"
        /\ WellFormed(item.attrs[i])
        /\ item.attrs[i].tokens # <<>>

====
